---- MODULE Spec2Model ----
(***************************************************************************)
(* tinyECS: the entity allocator (Entity), the dense/sparse component      *)
(* container (ComponentContainer<Component>) and the registry of           *)
(* containers (ContainerInterface::registry_list_singleton, RegistryECS).  *)
(*                                                                         *)
(* The asserts of the source are modelled as compiled in (no NDEBUG): a    *)
(* failed assert aborts the process, which the model records in `fault'.   *)
(* Array indices are 0-based as in the source; TLA+ sequences are 1-based, *)
(* so slot i of a vector is element i + 1 of the sequence.                 *)
(***************************************************************************)
EXTENDS Integers, Sequences, FiniteSets, TLC

(* ------------------------------ bounds --------------------------------- *)
\* The ids of the entities the bounded programs construct and pass to the
\* containers (Spec, SpecChecked, SpecList, SpecMarking, SpecDeep).
EntityIds == {1, 2, 3}
\* Component records held by all containers together (Spec, SpecChecked,
\* SpecList, SpecMarking).
MaxSlots == 3
\* Component records held by the one container SpecDeep works on.
MaxDeep == 4
\* SpecAlloc constructs entities one at a time only while the low half of the
\* counter is within this distance of 0 or of the wrap.
AllocWindow == 50

\* The comparison functions a caller passes to sort: the entities in
\* ascending and in descending order of id, both strict total orders.
Comparators == {"less", "greater"}

comparisonFunction(cmp, a, b) == IF cmp = "less" THEN a < b ELSE a > b

\* The component types the program instantiates containers for.
ComponentTypes == {"Name", "Swims"}
\* The component values a caller passes in: two names (struct Name), and the
\* one value a default-constructed Swims has.
Components(t) == IF t = "Name" THEN {"Fish", "Horse"} ELSE {"swim_speed=3"}

(* ------------------- unsigned int (32 bit) arithmetic ------------------- *)
\* An unsigned int is held as <<high 16 bits, low 16 bits>>.
HalfMod == 65536

Zero == <<0, 0>>

PlusOne(u) ==
    IF u[2] + 1 < HalfMod THEN <<u[1], u[2] + 1>>
    ELSE <<(u[1] + 1) % HalfMod, 0>>

MinusOne(u) ==
    IF u[2] > 0 THEN <<u[1], u[2] - 1>>
    ELSE <<(u[1] + HalfMod - 1) % HalfMod, HalfMod - 1>>

Plus(u, w) ==
    <<(u[1] + w[1] + ((u[2] + w[2]) \div HalfMod)) % HalfMod, (u[2] + w[2]) % HalfMod>>

Less(u, w) == u[1] < w[1] \/ (u[1] = w[1] /\ u[2] < w[2])

VARIABLES
    id_count,       \* Entity::id_count, the next id to hand out
    containers,     \* constructed containers, by component type
    registry_list,  \* the registry: handles of containers, in order
    fault,          \* TRUE once an assert has failed (the process aborted)
    shadow,         \* per container, a plain finite map entity -> component
    superseded,     \* per container, the slots that hold superseded records
    marking,        \* TRUE in the specifications that keep superseded
    last_op         \* the call that produced this state

vars == <<id_count, containers, registry_list, fault, shadow, superseded, marking,
          last_op>>

(* ------------------------- unordered_map helpers ------------------------ *)
EmptyMap == [k \in {} |-> 0]

\* m[k] = x of std::unordered_map: inserts the key or overwrites its value.
MapSet(m, k, x) == [y \in (DOMAIN m) \cup {k} |-> IF y = k THEN x ELSE m[y]]

\* m.erase(k)
MapErase(m, k) == [y \in (DOMAIN m) \ {k} |-> m[y]]

\* The number of slots of a sequence that hold x.
Count(seq, x) == Cardinality({i \in 1..Len(seq) : seq[i] = x})

(* --------------------------- ComponentContainer ------------------------- *)
\* A freshly constructed container: the three members are empty.
EmptyContainer ==
    [components |-> <<>>, entities |-> <<>>, map_entity_component_index |-> EmptyMap]

has(c, e) == e \in DOMAIN c.map_entity_component_index

size(c) == Len(c.components)

\* get, for an entity the assert lets through.
get(c, e) == c.components[c.map_entity_component_index[e] + 1]

\* Faulty variant: the entities vector is not appended to.
emplace_without_entity(c, e, v) ==
    [components |-> Append(c.components, v),
     entities |-> c.entities,
     map_entity_component_index |->
         MapSet(c.map_entity_component_index, e, Len(c.components))]

\* Faulty variant: the index is taken after the push_back, one too large.
emplace_index_after_push(c, e, v) ==
    [components |-> Append(c.components, v),
     entities |-> Append(c.entities, e),
     map_entity_component_index |->
         MapSet(c.map_entity_component_index, e, Len(c.components) + 1)]

\* The body of insert after the duplicate check (emplace_with_duplicates).
emplace_with_duplicates(c, e, v) ==
    LET component_index == Len(c.components)
    IN  [components |-> Append(c.components, v),
         entities |-> Append(c.entities, e),
         map_entity_component_index |->
             MapSet(c.map_entity_component_index, e, component_index)]

\* Faulty variant: the moved entity's index is not repointed.
remove_without_repoint(c, e) ==
    IF ~has(c, e) THEN c
    ELSE
        LET array_index == c.map_entity_component_index[e]
            back == Len(c.entities)
            components1 == [c.components EXCEPT ![array_index + 1] = c.components[back]]
            entities1 == [c.entities EXCEPT ![array_index + 1] = c.entities[back]]
        IN  [components |-> SubSeq(components1, 1, back - 1),
             entities |-> SubSeq(entities1, 1, back - 1),
             map_entity_component_index |-> MapErase(c.map_entity_component_index, e)]

\* Faulty variant: the last component is not moved into the freed slot.
remove_without_move(c, e) ==
    IF ~has(c, e) THEN c
    ELSE
        LET array_index == c.map_entity_component_index[e]
            back == Len(c.entities)
            entities1 == [c.entities EXCEPT ![array_index + 1] = c.entities[back]]
            map1 == MapSet(c.map_entity_component_index, entities1[back], array_index)
        IN  [components |-> SubSeq(c.components, 1, back - 1),
             entities |-> SubSeq(entities1, 1, back - 1),
             map_entity_component_index |-> MapErase(map1, e)]

\* Faulty variant: no early return; the lookup of an absent entity yields the
\* default index 0 (operator[] of the map) and slot 0 is removed.
remove_without_return(c, e) ==
    IF ~has(c, e) /\ Len(c.entities) = 0 THEN c
    ELSE
        LET array_index == IF has(c, e) THEN c.map_entity_component_index[e] ELSE 0
            back == Len(c.entities)
            components1 == [c.components EXCEPT ![array_index + 1] = c.components[back]]
            entities1 == [c.entities EXCEPT ![array_index + 1] = c.entities[back]]
            map1 == MapSet(c.map_entity_component_index, entities1[back], array_index)
        IN  [components |-> SubSeq(components1, 1, back - 1),
             entities |-> SubSeq(entities1, 1, back - 1),
             map_entity_component_index |-> MapErase(map1, e)]

\* remove(e): swap-with-last removal.  When the slot is the last one the
\* component is move-assigned to itself and then popped, so its value is never
\* observed.  The erase is by the entity's key, map.erase(e), as in
\* include/tiny_ecs.hpp.  src/tinyECS/tiny_ecs.hpp erases through the iterator
\* found at entry; the map is node based, so that iterator names the node of
\* key e also when the assignment before it added a key for an unmapped back
\* entity, and both revisions erase the same element.
remove(c, e) ==
    IF ~has(c, e) THEN c
    ELSE
        LET array_index == c.map_entity_component_index[e]
            back == Len(c.entities)
            components1 == [c.components EXCEPT ![array_index + 1] = c.components[back]]
            entities1 == [c.entities EXCEPT ![array_index + 1] = c.entities[back]]
            map1 == MapSet(c.map_entity_component_index, entities1[back], array_index)
            map2 == MapErase(map1, e)
        IN  [components |-> SubSeq(components1, 1, back - 1),
             entities |-> SubSeq(entities1, 1, back - 1),
             map_entity_component_index |-> map2]

clear(c) == EmptyContainer

\* The state a component is left in when the transform of sort has moved out
\* of it: a Name holds a std::string, whose moved-from state is unspecified
\* (it keeps its characters or is left empty, by the library); a Swims holds a
\* float, which a move copies.
MovedFrom(t, v, keeps) == IF t = "Name" /\ ~keeps THEN "" ELSE v

\* std::transform(entities, back_inserter(components_new), get), entity by
\* entity: get looks the entity up in the map as it was before the sort and
\* asserts that it is there; the component is moved out of the old vector.
RECURSIVE Transform(_, _, _, _, _, _, _)
Transform(t, m, ents, i, old, new, keeps) ==
    IF i > Len(ents) THEN [failed |-> FALSE, components |-> new]
    ELSE IF ents[i] \notin DOMAIN m THEN [failed |-> TRUE, components |-> old]
    ELSE LET slot == m[ents[i]] + 1
         IN  Transform(t, m, ents, i + 1,
                       [old EXCEPT ![slot] = MovedFrom(t, old[slot], keeps)],
                       Append(new, old[slot]), keeps)

\* for (i = 0; i < entities.size(); i++) map[entities[i].id] = i;
RECURSIVE FillMap(_, _, _)
FillMap(m, ents, i) ==
    IF i > Len(ents) THEN m
    ELSE FillMap(MapSet(m, ents[i], i - 1), ents, i + 1)

\* The assert of get fails for some entity of the sequence.
sort_fails(c) == \E i \in 1..Len(c.entities) : ~has(c, c.entities[i])

\* sort(comparisonFunction).  When an assert of get fails the entities are
\* sorted already and the components visited so far are moved from; the map
\* is as it was.
sort(t, c, cmp, keeps) ==
    LET entities1 == SortSeq(c.entities, LAMBDA a, b : comparisonFunction(cmp, a, b))
        moved == Transform(t, c.map_entity_component_index, entities1, 1,
                           c.components, <<>>, keeps)
    IN  [components |-> moved.components,
         entities |-> entities1,
         map_entity_component_index |->
             IF moved.failed THEN c.map_entity_component_index
             ELSE FillMap(c.map_entity_component_index, entities1, 1)]

(* ------------------------------- state ---------------------------------- *)
\* The log of the last call that changed a member, failed an assert or wrote
\* to the standard output: its name, the container, entity and component it
\* was given, the number of records it dropped (n), for an Entity
\* construction the id it returned, and the lines it wrote (out).  Any other
\* call that returns with every member as it was leaves the log as it is.
NoOp == [op |-> "init", c |-> "-", e |-> 0, v |-> "-", n |-> 0, id |-> Zero, out |-> <<>>]

Op(name, t, e, v) ==
    [op |-> name, c |-> t, e |-> e, v |-> v, n |-> 0, id |-> Zero, out |-> <<>>]

OpDrop(name, t, e, n) ==
    [op |-> name, c |-> t, e |-> e, v |-> "-", n |-> n, id |-> Zero, out |-> <<>>]

OpList(name, e, lines) ==
    [op |-> name, c |-> "-", e |-> e, v |-> "-", n |-> 0, id |-> Zero, out |-> lines]

\* The log of superseded records: slot i of container c is in superseded[c]
\* when an allow-duplicate insert of an entity e found e's record in that slot
\* and gave e a new one, and c has since seen only inserts of other entities
\* and removes.  A remove moves the mark with the record it moves.  A mark on
\* the slot that a lookup refers to is kept for the one state in which the
\* lookup first reaches the superseded record; the next call starts from
\* Marks, which has dropped it.
LooksUp(c, i) ==
    has(c, c.entities[i + 1]) /\ c.map_entity_component_index[c.entities[i + 1]] = i

Slots(c, e) == {i \in 0..(Len(c.entities) - 1) : c.entities[i + 1] = e}

SupersededAfterRemove(S, c, e) ==
    IF ~has(c, e) THEN S
    ELSE LET array_index == c.map_entity_component_index[e]
             back == Len(c.entities) - 1
         IN  (S \ {array_index, back}) \cup
             IF back \in S /\ back # array_index THEN {array_index} ELSE {}

Marks == [t \in DOMAIN superseded |->
              {i \in superseded[t] : ~LooksUp(containers[t], i)}]

\* The marks are kept only where marking is set; elsewhere superseded stays
\* as it is initially, empty.
Marked(S) ==
    /\ marking' = marking
    /\ superseded' = IF marking THEN S ELSE superseded

Logged(entry) ==
    last_op' = IF containers' = containers THEN last_op ELSE entry

OpEntity(name, id) ==
    [op |-> name, c |-> "-", e |-> 0, v |-> "-", n |-> 0, id |-> id, out |-> <<>>]

Init ==
    /\ id_count = <<0, 1>>
    /\ containers = [t \in {} |-> EmptyContainer]
    /\ registry_list = <<>>
    /\ fault = FALSE
    /\ shadow = [t \in {} |-> EmptyMap]
    /\ superseded = [t \in {} |-> {}]
    /\ marking = FALSE
    /\ last_op = NoOp

\* Entities constructed so far (before the counter has wrapped).
Allocated == {e \in EntityIds : Less(<<0, e>>, id_count)}

Constructed == DOMAIN containers

RECURSIVE SumSizes(_, _)
SumSizes(cs, S) ==
    IF S = {} THEN 0
    ELSE LET t == CHOOSE x \in S : TRUE
         IN  size(cs[t]) + SumSizes(cs, S \ {t})

TotalSize == SumSizes(containers, Constructed)

(* ------------------------------ registry -------------------------------- *)
\* for (auto reg : registry_list) reg->remove(e);
RECURSIVE RemoveFrom(_, _, _, _)
RemoveFrom(list, i, cs, e) ==
    IF i > Len(list) THEN cs
    ELSE RemoveFrom(list, i + 1, [cs EXCEPT ![list[i]] = remove(@, e)], e)

\* Faulty variant: the loop starts at the second handle.
remove_all_but_first(list, cs, e) == RemoveFrom(list, 2, cs, e)

remove_all_components_of(list, cs, e) == RemoveFrom(list, 1, cs, e)

\* for (auto reg : registry_list) reg->clear();
RECURSIVE ClearFrom(_, _, _)
ClearFrom(list, i, cs) ==
    IF i > Len(list) THEN cs
    ELSE ClearFrom(list, i + 1, [cs EXCEPT ![list[i]] = clear(@)])

\* Faulty variant: the loop starts at the second handle.
clear_all_but_first(list, cs) == ClearFrom(list, 2, cs)

clear_all_components(list, cs) == ClearFrom(list, 1, cs)

\* list_all_components: for each handle whose container has size() > 0, a
\* line with the size, the type and the entities; it reads and writes nothing
\* else.
RECURSIVE ListFrom(_, _, _, _)
ListFrom(list, i, cs, lines) ==
    IF i > Len(list) THEN lines
    ELSE LET reg == cs[list[i]]
         IN  ListFrom(list, i + 1, cs,
                      IF size(reg) > 0
                      THEN Append(lines, [type |-> list[i], n |-> size(reg),
                                          entities |-> reg.entities])
                      ELSE lines)

list_all_components(list, cs) == ListFrom(list, 1, cs, <<>>)

\* map[k], read: operator[] of std::unordered_map adds the key, with the value
\* 0, when the map does not hold it.
MapIndex(m, k) == IF k \in DOMAIN m THEN m ELSE MapSet(m, k, 0)

\* list_all_components_of(e): for each handle whose container has(e), a line
\* with the type and the location map_entity_component_index[e.id].  `guarded'
\* is the test of has(e) ahead of the line.
RECURSIVE ListOfFrom(_, _, _, _, _, _)
ListOfFrom(list, i, cs, e, lines, guarded) ==
    IF i > Len(list) THEN [containers |-> cs, out |-> lines]
    ELSE LET reg == cs[list[i]]
             map1 == MapIndex(reg.map_entity_component_index, e)
         IN  IF guarded /\ ~has(reg, e)
             THEN ListOfFrom(list, i + 1, cs, e, lines, guarded)
             ELSE ListOfFrom(list, i + 1,
                             [cs EXCEPT ![list[i]].map_entity_component_index = map1],
                             e,
                             Append(lines, [type |-> list[i], location |-> map1[e]]),
                             guarded)

\* Faulty variant: the location is printed without the test of has(e).
list_all_unguarded(list, cs, e) == ListOfFrom(list, 1, cs, e, <<>>, FALSE)

list_all_components_of(list, cs, e) == ListOfFrom(list, 1, cs, e, <<>>, TRUE)

(* ------------------------------ actions --------------------------------- *)
\* Entity::Entity(): id = id_count++.
NewEntity ==
    /\ ~fault
    /\ id_count' = PlusOne(id_count)
    /\ last_op' = OpEntity("Entity", id_count)
    /\ Marked(Marks)
    /\ UNCHANGED <<containers, registry_list, fault, shadow>>

\* k Entity constructions in a row (Entity es[k]), none of which wraps the
\* counter; the id logged is the last one returned.
NewEntities(k) ==
    /\ ~fault
    /\ Less(id_count, Plus(id_count, k))
    /\ id_count' = Plus(id_count, k)
    /\ last_op' = OpEntity("Entities", MinusOne(id_count'))
    /\ Marked(Marks)
    /\ UNCHANGED <<containers, registry_list, fault, shadow>>

\* Faulty variant: the handle is pushed twice (by the constructor of the
\* container and again by the owner of the registry).
ConstructTwice(t) ==
    /\ ~fault
    /\ t \notin Constructed
    /\ id_count = <<0, 1>>
    /\ containers' = [x \in Constructed \cup {t} |->
                         IF x = t THEN EmptyContainer ELSE containers[x]]
    /\ registry_list' = Append(Append(registry_list, t), t)
    /\ shadow' = [x \in Constructed \cup {t} |-> IF x = t THEN EmptyMap ELSE shadow[x]]
    /\ Marked([x \in Constructed \cup {t} |-> IF x = t THEN {} ELSE Marks[x]])
    /\ last_op' = Op("construct", t, 0, "-")
    /\ UNCHANGED <<id_count, fault>>

\* ComponentContainer::ComponentContainer(): registers the container.  The
\* containers are objects of static storage duration: all are constructed
\* before main constructs an entity or inserts a component.
Construct(t) ==
    /\ ~fault
    /\ t \notin Constructed
    /\ id_count = <<0, 1>>
    /\ containers' = [x \in Constructed \cup {t} |->
                         IF x = t THEN EmptyContainer ELSE containers[x]]
    /\ registry_list' = Append(registry_list, t)
    /\ shadow' = [x \in Constructed \cup {t} |-> IF x = t THEN EmptyMap ELSE shadow[x]]
    /\ Marked([x \in Constructed \cup {t} |-> IF x = t THEN {} ELSE Marks[x]])
    /\ last_op' = Op("construct", t, 0, "-")
    /\ UNCHANGED <<id_count, fault>>

\* Faulty variant: the duplicate check comes after the append.
InsertThenAssert(t, e, v) ==
    /\ ~fault
    /\ t \in Constructed
    /\ last_op' = Op("insert", t, e, v)
    /\ containers' = [containers EXCEPT ![t] = emplace_with_duplicates(@, e, v)]
    /\ shadow' = [shadow EXCEPT ![t] = MapSet(@, e, v)]
    /\ fault' = has(containers[t], e)
    /\ Marked([Marks EXCEPT ![t] = @ \ Slots(containers[t], e)])
    /\ UNCHANGED <<id_count, registry_list>>

\* insert(e, c) / emplace(e, ...): the duplicate check, then the append.
Insert(t, e, v) ==
    /\ ~fault
    /\ t \in Constructed
    /\ IF has(containers[t], e)
       THEN /\ fault' = TRUE
            /\ last_op' = Op("insert", t, e, "-")
            /\ Marked(Marks)
            /\ UNCHANGED <<id_count, containers, registry_list, shadow>>
       ELSE /\ last_op' = Op("insert", t, e, v)
            /\ containers' = [containers EXCEPT ![t] = emplace_with_duplicates(@, e, v)]
            /\ shadow' = [shadow EXCEPT ![t] = MapSet(@, e, v)]
            /\ Marked([Marks EXCEPT ![t] = @ \ Slots(containers[t], e)])
            /\ UNCHANGED <<id_count, registry_list, fault>>

\* insert(e, c, false) / emplace_with_duplicates(e, ...): no duplicate check.
InsertDup(t, e, v) ==
    /\ ~fault
    /\ t \in Constructed
    /\ containers' = [containers EXCEPT ![t] = emplace_with_duplicates(@, e, v)]
    /\ shadow' = [shadow EXCEPT ![t] = MapSet(@, e, v)]
    /\ Marked([Marks EXCEPT ![t] =
           (@ \ Slots(containers[t], e)) \cup
           IF has(containers[t], e)
           THEN {containers[t].map_entity_component_index[e]} ELSE {}])
    /\ last_op' = Op("insert_dup", t, e, v)
    /\ UNCHANGED <<id_count, registry_list, fault>>

\* get(e): asserts that the entity is present, then reads (no member changes).
Get(t, e) ==
    /\ ~fault
    /\ t \in Constructed
    /\ IF has(containers[t], e)
       THEN UNCHANGED <<fault, last_op>>
       ELSE /\ last_op' = Op("get", t, e, "-")
            /\ fault' = TRUE
    /\ Marked(Marks)
    /\ UNCHANGED <<id_count, containers, registry_list, shadow>>

Remove(t, e) ==
    /\ ~fault
    /\ t \in Constructed
    /\ containers' = [containers EXCEPT ![t] = remove(@, e)]
    /\ shadow' = [shadow EXCEPT ![t] = MapErase(@, e)]
    /\ Marked([Marks EXCEPT ![t] = SupersededAfterRemove(@, containers[t], e)])
    /\ Logged(OpDrop("remove", t, e, size(containers[t]) - size(containers'[t])))
    /\ UNCHANGED <<id_count, registry_list, fault>>

Clear(t) ==
    /\ ~fault
    /\ t \in Constructed
    /\ containers' = [containers EXCEPT ![t] = clear(@)]
    /\ shadow' = [shadow EXCEPT ![t] = EmptyMap]
    /\ Marked([Marks EXCEPT ![t] = {}])
    /\ Logged(Op("clear", t, 0, "-"))
    /\ UNCHANGED <<id_count, registry_list, fault>>

\* sort(comparisonFunction); keeps says what the library leaves in a
\* moved-from std::string.
Sort(t, cmp, keeps) ==
    /\ ~fault
    /\ t \in Constructed
    /\ containers' = [containers EXCEPT ![t] = sort(t, @, cmp, keeps)]
    /\ fault' = sort_fails(containers[t])
    /\ Marked([Marks EXCEPT ![t] = {}])
    /\ IF fault' THEN last_op' = Op("sort", t, 0, cmp) ELSE Logged(Op("sort", t, 0, cmp))
    /\ UNCHANGED <<id_count, registry_list, shadow>>

\* ContainerInterface::remove_all_components_of(e)
RemoveAll(e) ==
    /\ ~fault
    /\ containers' = remove_all_components_of(registry_list, containers, e)
    /\ shadow' = [t \in DOMAIN shadow |-> MapErase(shadow[t], e)]
    /\ Marked([t \in DOMAIN superseded |->
                          SupersededAfterRemove(Marks[t], containers[t], e)])
    /\ Logged(OpDrop("remove_all_components_of", "-", e,
                     TotalSize - SumSizes(containers', Constructed)))
    /\ UNCHANGED <<id_count, registry_list, fault>>

\* ContainerInterface::clear_all_components()
ClearAll ==
    /\ ~fault
    /\ containers' = clear_all_components(registry_list, containers)
    /\ shadow' = [t \in DOMAIN shadow |-> EmptyMap]
    /\ Marked([t \in DOMAIN superseded |-> {}])
    /\ Logged(OpDrop("clear_all_components", "-", 0, TotalSize))
    /\ UNCHANGED <<id_count, registry_list, fault>>

\* ContainerInterface::list_all_components()
ListAll ==
    /\ ~fault
    /\ last_op' = OpList("list_all_components", 0,
                          list_all_components(registry_list, containers))
    /\ Marked(Marks)
    /\ UNCHANGED <<id_count, containers, registry_list, fault, shadow>>

\* ContainerInterface::list_all_components_of(e)
ListOf(e) ==
    /\ ~fault
    /\ containers' = list_all_components_of(registry_list, containers, e).containers
    /\ last_op' = OpList("list_all_components_of", e,
                          list_all_components_of(registry_list, containers, e).out)
    /\ Marked(Marks)
    /\ UNCHANGED <<id_count, registry_list, fault, shadow>>

(* --------------------------- specifications ----------------------------- *)
\* The bounded program: the entities of EntityIds, at most MaxSlots records.
MayConstructEntity == id_count[1] = 0 /\ id_count[2] \in EntityIds

Room == TotalSize < MaxSlots

\* The program sorts a container only while no entity occupies two of its
\* slots.
OneSlotEach(c) == \A e \in EntityIds : Count(c.entities, e) <= 1

\* What the library leaves in a moved-from string shows only in the vector
\* the sort moves out of, which survives the call only when an assert fails.
MovedFromSeen(c) == IF sort_fails(c) THEN BOOLEAN ELSE {TRUE}

Next ==
    \/ (MayConstructEntity /\ NewEntity)
    \/ \E t \in ComponentTypes : Construct(t)
    \/ \E t \in Constructed, e \in Allocated : \E v \in Components(t) :
           (has(containers[t], e) \/ Room) /\ Insert(t, e, v)
    \/ \E t \in Constructed, e \in Allocated : \E v \in Components(t) :
           Room /\ InsertDup(t, e, v)
    \/ \E t \in Constructed, e \in Allocated : Get(t, e)
    \/ \E t \in Constructed, e \in Allocated : Remove(t, e)
    \/ \E t \in Constructed : Clear(t)
    \/ \E t \in Constructed, cmp \in Comparators :
           \E keeps \in MovedFromSeen(containers[t]) :
               OneSlotEach(containers[t]) /\ Sort(t, cmp, keeps)
    \/ \E e \in Allocated : RemoveAll(e)
    \/ ClearAll

Spec == Init /\ [][Next]_vars

\* The same program without the allow-duplicate inserts.
NextChecked ==
    \/ (MayConstructEntity /\ NewEntity)
    \/ \E t \in ComponentTypes : Construct(t)
    \/ \E t \in Constructed, e \in Allocated : \E v \in Components(t) :
           (has(containers[t], e) \/ Room) /\ Insert(t, e, v)
    \/ \E t \in Constructed, e \in Allocated : Get(t, e)
    \/ \E t \in Constructed, e \in Allocated : Remove(t, e)
    \/ \E t \in Constructed : Clear(t)
    \/ \E e \in Allocated : RemoveAll(e)
    \/ ClearAll

SpecChecked == Init /\ [][NextChecked]_vars

\* A program that also calls the two diagnostic traversals, and none of whose
\* calls fails an assert.
NextList ==
    \/ (MayConstructEntity /\ NewEntity)
    \/ \E t \in ComponentTypes : Construct(t)
    \/ \E t \in Constructed, e \in Allocated : \E v \in Components(t) :
           ~has(containers[t], e) /\ Room /\ Insert(t, e, v)
    \/ \E t \in Constructed, e \in Allocated : \E v \in Components(t) :
           Room /\ InsertDup(t, e, v)
    \/ \E t \in Constructed, e \in Allocated : Remove(t, e)
    \/ \E t \in Constructed : Clear(t)
    \/ \E t \in Constructed, cmp \in Comparators :
           /\ OneSlotEach(containers[t]) /\ ~sort_fails(containers[t])
           /\ Sort(t, cmp, TRUE)
    \/ \E e \in Allocated : RemoveAll(e)
    \/ ClearAll
    \/ ListAll
    \/ \E e \in Allocated : ListOf(e)

SpecList == Init /\ [][NextList]_vars

\* The program of Spec, with the superseded records marked.
InitMarking ==
    /\ id_count = <<0, 1>>
    /\ containers = [t \in {} |-> EmptyContainer]
    /\ registry_list = <<>>
    /\ fault = FALSE
    /\ shadow = [t \in {} |-> EmptyMap]
    /\ superseded = [t \in {} |-> {}]
    /\ marking = TRUE
    /\ last_op = NoOp

SpecMarking == InitMarking /\ [][Next]_vars

\* A program that works on the Name container alone, with room for MaxDeep
\* records in it.
RoomDeep == TotalSize < MaxDeep

NextDeep ==
    \/ (MayConstructEntity /\ NewEntity)
    \/ Construct("Name")
    \/ \E e \in Allocated : \E v \in Components("Name") :
           /\ "Name" \in Constructed
           /\ (has(containers["Name"], e) \/ RoomDeep)
           /\ Insert("Name", e, v)
    \/ \E e \in Allocated : \E v \in Components("Name") :
           RoomDeep /\ InsertDup("Name", e, v)
    \/ \E e \in Allocated : Get("Name", e)
    \/ \E e \in Allocated : Remove("Name", e)
    \/ Clear("Name")

SpecDeep == Init /\ [][NextDeep]_vars

\* A program that only constructs entities: one at a time while the counter
\* is within AllocWindow of its first value or of the wrap, and once in a run
\* of BulkCount = 2^32 - AllocWindow constructions.
BulkCount == <<HalfMod - 1, HalfMod - AllocWindow>>

NearEnds ==
    \/ (id_count[1] = 0 /\ id_count[2] < AllocWindow)
    \/ (id_count[1] = HalfMod - 1 /\ id_count[2] >= HalfMod - AllocWindow)

NextAlloc ==
    \/ (NearEnds /\ NewEntity)
    \/ NewEntities(BulkCount)

SpecAlloc == Init /\ [][NextAlloc]_vars

(* ------------------------------- claims --------------------------------- *)
\* The lookup of e resolves to a live slot, and that slot holds v.
Resolves(c, e, v) ==
    /\ has(c, e)
    /\ c.map_entity_component_index[e] < Len(c.components)
    /\ get(c, e) = v

\* C1: in every state reached by duplicate-checked inserts, removes and
\* clears the index map is the exact inverse of the entities sequence: has(e)
\* iff e occurs in entities, entities[map[e]] = e for every mapped e,
\* map[entities[i]] = i for every slot i, and as many mapped entities as size().
C1_IndexMapIsInverse ==
    \A t \in Constructed :
        LET c == containers[t]
            m == c.map_entity_component_index
        IN  /\ \A e \in EntityIds :
                   has(c, e) <=> \E i \in 1..Len(c.entities) : c.entities[i] = e
            /\ \A e \in DOMAIN m : m[e] < Len(c.entities) /\ c.entities[m[e] + 1] = e
            /\ \A i \in 1..Len(c.entities) :
                   has(c, c.entities[i]) /\ m[c.entities[i]] = i - 1
            /\ Cardinality(DOMAIN m) = size(c)

\* A remove has dropped a record of three and left entity 3 in slot 0, ahead
\* of entity 2.
C1_Witness ==
    \E t \in Constructed :
        /\ last_op.op = "remove" /\ last_op.c = t /\ last_op.n = 1
        /\ containers[t].entities = <<3, 2>>
        /\ containers[t].map_entity_component_index = [x \in {2, 3} |-> IF x = 3 THEN 0 ELSE 1]

\* C2: remove(e) with has(e) true, in any reachable state, leaves size n-1 and
\* has(e) false; every other entity that had a component still has it, with
\* the same value; and the entity of the last slot, if not e, now occupies
\* e's former slot.
C2_SwapRemove ==
    [][last_op'.op = "remove" /\ has(containers[last_op'.c], last_op'.e) =>
          LET e == last_op'.e
              c == containers[last_op'.c]
              d == containers'[last_op'.c]
              n == size(c)
              slot == c.map_entity_component_index[e]
          IN  /\ size(d) = n - 1
              /\ ~has(d, e)
              /\ \A x \in EntityIds \ {e} :
                     has(c, x) => Resolves(d, x, get(c, x))
              /\ c.entities[n] # e => d.entities[slot + 1] = c.entities[n]
      ]_vars

\* C3: after a duplicate-checked insert of e that did not fault, e occupies
\* exactly one slot of the entities sequence, whatever preceded the call.
C3_CheckedInsertUnique ==
    last_op.op = "insert" /\ ~fault =>
        Count(containers[last_op.c].entities, last_op.e) = 1

\* C4: under duplicate-checked inserts, removes and clears the container and
\* the plain finite map kept in lockstep agree after every step: has(e) iff e
\* is a key, get(e) is the map's value, size() is the number of keys and the
\* entities sequence is a permutation of the key set.
C4_ObservationallyAMap ==
    \A t \in Constructed :
        LET c == containers[t]
            m == shadow[t]
        IN  /\ \A e \in EntityIds : has(c, e) <=> e \in DOMAIN m
            /\ \A e \in DOMAIN m : Resolves(c, e, m[e])
            /\ size(c) = Cardinality(DOMAIN m)
            /\ Len(c.entities) = Cardinality(DOMAIN m)
            /\ {c.entities[i] : i \in 1..Len(c.entities)} = DOMAIN m

\* Three names were inserted and one removed: the two that remain, swapped,
\* hold different values.
C4_Witness ==
    /\ "Name" \in Constructed
    /\ last_op.op = "remove" /\ last_op.c = "Name" /\ last_op.e = 1 /\ last_op.n = 1
    /\ containers["Name"].entities = <<3, 2>>
    /\ containers["Name"].components = <<"Horse", "Fish">>
    /\ shadow["Name"] = [x \in {2, 3} |-> IF x = 3 THEN "Horse" ELSE "Fish"]

\* C5: after every container operation, size() is the length of the
\* components sequence and of the entities sequence.
C5_ParallelLengths ==
    \A t \in Constructed :
        /\ size(containers[t]) = Len(containers[t].components)
        /\ Len(containers[t].components) = Len(containers[t].entities)

\* An allow-duplicate insert has given an entity a second record.
C5_Witness ==
    \E t \in Constructed :
        /\ last_op.op = "insert_dup" /\ last_op.c = t
        /\ Count(containers[t].entities, last_op.e) = 2
        /\ size(containers[t]) = 3

\* C6: remove(e) where has(e) is false does not fault and changes no member
\* of any container nor the registry; and a second remove(e) right after any
\* remove(e) changes nothing.  (A remove that changes a container is logged,
\* so the steps to look at are those that leave a remove in the log.)
C6_RemoveAbsentIsNoOp ==
    [][\A t \in Constructed, e \in EntityIds :
           last_op'.op = "remove" /\ Remove(t, e) =>
               /\ ~fault'
               /\ ~has(containers[t], e) =>
                      containers' = containers /\ registry_list' = registry_list
               /\ remove(containers'[t], e) = containers'[t]
      ]_vars

\* A remove(e) has dropped a record and left another: e is absent now, and
\* the same call again is the second of the two in a row.
C6_Witness ==
    /\ last_op.op = "remove" /\ last_op.n = 1 /\ ~fault
    /\ ~has(containers[last_op.c], last_op.e)
    /\ size(containers[last_op.c]) = 2

\* C7: an assert of insert or of get that fails leaves every container, the
\* registry and the counter as they were; a duplicate-checked insert of an
\* entity that has a component faults, and so does the get of an entity that
\* has none.
C7_FaultBeforeChange ==
    [][/\ fault' /\ ~fault /\ last_op'.op \in {"insert", "get"} =>
              /\ containers' = containers
              /\ registry_list' = registry_list
              /\ id_count' = id_count
       /\ last_op'.op = "insert" /\ has(containers[last_op'.c], last_op'.e) =>
              fault' /\ containers' = containers
       /\ last_op'.op = "get" /\ ~has(containers[last_op'.c], last_op'.e) =>
              fault' /\ containers' = containers
      ]_vars

\* A second insert for an entity was rejected: still exactly one record.
C7_Witness ==
    /\ fault /\ last_op.op = "insert"
    /\ size(containers[last_op.c]) = 1
    /\ Count(containers[last_op.c].entities, last_op.e) = 1

\* C8: after remove_all_components_of(e), has(e) is false on every container
\* of the registry.
C8_RemovedEverywhere ==
    last_op.op = "remove_all_components_of" =>
        \A i \in 1..Len(registry_list) : ~has(containers[registry_list[i]], last_op.e)

\* The call dropped a record of the entity from each of two containers, one of
\* which still holds another entity.
C8_Witness ==
    /\ last_op.op = "remove_all_components_of" /\ last_op.n = 2
    /\ Len(registry_list) = 2
    /\ TotalSize = 1

\* C9: successive Entity constructions return strictly increasing ids, the
\* first of them 1, and never 0.
C9_AllocatorMonotone ==
    [][last_op'.op \in {"Entity", "Entities"} =>
          /\ Less(last_op.id, last_op'.id)
          /\ last_op.op = "init" /\ last_op'.op = "Entity" => last_op'.id = <<0, 1>>
      ]_vars

\* C10: a duplicate-checked insert(e, v) that does not fault appends one
\* record: size() grows by one, the last slots hold e and v, has(e) is true
\* and get(e) is v; every other entity keeps its has and its get.
C10_InsertAppends ==
    [][last_op'.op = "insert" /\ ~fault' =>
          LET e == last_op'.e
              v == last_op'.v
              c == containers[last_op'.c]
              d == containers'[last_op'.c]
              n == size(c)
          IN  /\ size(d) = n + 1
              /\ Len(d.entities) = n + 1
              /\ d.entities[n + 1] = e
              /\ d.components[n + 1] = v
              /\ Resolves(d, e, v)
              /\ \A x \in EntityIds \ {e} :
                     /\ has(d, x) <=> has(c, x)
                     /\ has(c, x) => Resolves(d, x, get(c, x))
      ]_vars

\* A third name was appended behind two others.
C10_Witness ==
    /\ last_op.op = "insert" /\ ~fault /\ last_op.c = "Name"
    /\ size(containers["Name"]) = 3
    /\ containers["Name"].entities[3] = last_op.e
    /\ containers["Name"].components[3] = last_op.v

\* C11: clear_all_components clears every container of the registry, each
\* handle of which occurs once: afterwards each has size() 0, empty components
\* and entities sequences and has(e) false for every entity; the registry list
\* holds the same handles in the same order.
C11_ClearAllEmpties ==
    [][ClearAll =>
          /\ \A i \in 1..Len(registry_list) :
                 LET d == containers'[registry_list[i]]
                 IN  /\ Count(registry_list, registry_list[i]) = 1
                     /\ size(d) = 0
                     /\ d.components = <<>> /\ d.entities = <<>>
                     /\ \A e \in EntityIds : ~has(d, e)
          /\ registry_list' = registry_list
      ]_vars

\* The call emptied two registered containers that held three records.
C11_Witness ==
    /\ last_op.op = "clear_all_components" /\ last_op.n = 3
    /\ registry_list = <<"Name", "Swims">>
    /\ \A t \in Constructed : containers[t] = EmptyContainer

\* C12: an allow-duplicate insert(e, c2) on a container where e holds c1
\* grows size() by one and makes get(e) return c2; and while the container
\* sees only inserts of other entities and removes, no lookup reaches the
\* superseded record: has(e) never refers to its slot.
C12_SupersededUnreachable ==
    [][/\ last_op'.op = "insert_dup" /\ has(containers[last_op'.c], last_op'.e) =>
              /\ size(containers'[last_op'.c]) = size(containers[last_op'.c]) + 1
              /\ Resolves(containers'[last_op'.c], last_op'.e, last_op'.v)
       /\ \A t \in DOMAIN containers', e \in EntityIds :
              has(containers'[t], e) =>
                  containers'[t].map_entity_component_index[e] \notin superseded'[t]
      ]_vars

\* C13: sort(cmp) on a container in which every entity occupies at most one
\* slot, cmp a strict total order on entities, completes and leaves the
\* entities ordered by cmp; the set of entities and size() are as before,
\* get(e) returns its pre-sort value for every entity, and the index map is
\* the exact inverse of the new entities sequence.
C13_SortKeepsLookups ==
    [][\A keeps \in BOOLEAN :
           /\ last_op'.op = "sort"
           /\ Sort(last_op'.c, last_op'.v, keeps)
           /\ OneSlotEach(containers[last_op'.c])
           => LET c == containers[last_op'.c]
                  d == containers'[last_op'.c]
              IN  /\ ~fault'
                  /\ \A i \in 1..(Len(d.entities) - 1) :
                         comparisonFunction(last_op'.v, d.entities[i], d.entities[i + 1])
                  /\ {d.entities[i] : i \in 1..Len(d.entities)} =
                         {c.entities[i] : i \in 1..Len(c.entities)}
                  /\ size(d) = size(c) /\ Len(d.entities) = Len(c.entities)
                  /\ \A e \in EntityIds :
                         /\ has(d, e) <=> has(c, e)
                         /\ has(c, e) => Resolves(d, e, get(c, e))
                  /\ \A i \in 1..Len(d.entities) :
                         /\ has(d, d.entities[i])
                         /\ d.map_entity_component_index[d.entities[i]] = i - 1
      ]_vars

\* C14: the registry list holds each constructed container exactly once: a
\* construction appends one handle, that of the new container, and no other
\* call (insert, remove, clear, sort, clear_all_components,
\* remove_all_components_of, list_all_components, list_all_components_of)
\* changes the list.
C14_RegistryOncePerContainer ==
    [][/\ \A t \in DOMAIN containers' : Count(registry_list', t) = 1
       /\ Len(registry_list') = Cardinality(DOMAIN containers')
       /\ IF last_op'.op = "construct" /\ DOMAIN containers' # DOMAIN containers
          THEN /\ registry_list' = Append(registry_list, last_op'.c)
               /\ DOMAIN containers' = DOMAIN containers \cup {last_op'.c}
               /\ last_op'.c \notin DOMAIN containers
          ELSE /\ registry_list' = registry_list
               /\ DOMAIN containers' = DOMAIN containers
      ]_vars

\* Both containers are registered, in the order of their construction, and a
\* traversal has just run over the records they hold.
C14_Witness ==
    /\ registry_list = <<"Swims", "Name">>
    /\ last_op.op = "list_all_components" /\ Len(last_op.out) = 2
    /\ TotalSize = 3

\* C15: once remove(e) has returned on a container, has(e) stays false there
\* until the next insert or emplace of e on that container, in every reachable
\* state.  A remove(e) returns, with nothing changed, in any state where
\* has(e) is false, so: no step takes has(e) from false to true unless it is
\* an insert of e on that container.
C15_RemovedStaysAbsent ==
    [][\A t \in DOMAIN containers, e \in EntityIds :
           ~has(containers[t], e) /\ has(containers'[t], e) =>
               /\ last_op'.op \in {"insert", "insert_dup"}
               /\ last_op'.c = t /\ last_op'.e = e
      ]_vars

\* C16: list_all_components and list_all_components_of(e) leave every
\* container's components, entities and index map, and the registry list, as
\* they were, whether or not e is in a container; list_all_components_of
\* reports exactly the containers with has(e), list_all_components exactly
\* those with size() > 0.
C16_ListsReadOnly ==
    [][last_op'.op \in {"list_all_components", "list_all_components_of"} =>
          /\ containers' = containers
          /\ registry_list' = registry_list
          /\ last_op'.op = "list_all_components_of" =>
                 last_op'.out =
                     [i \in 1..Len(last_op'.out) |->
                         [type |-> last_op'.out[i].type,
                          location |-> containers[last_op'.out[i].type]
                                           .map_entity_component_index[last_op'.e]]]
          /\ LET reported == {last_op'.out[i].type : i \in 1..Len(last_op'.out)}
             IN  /\ Cardinality(reported) = Len(last_op'.out)
                 /\ reported =
                        IF last_op'.op = "list_all_components_of"
                        THEN {registry_list[i] : i \in {j \in 1..Len(registry_list) :
                                  has(containers[registry_list[j]], last_op'.e)}}
                        ELSE {registry_list[i] : i \in {j \in 1..Len(registry_list) :
                                  size(containers[registry_list[j]]) > 0}}
      ]_vars

\* list_all_components_of(e) has reported one of two containers: e has a
\* component in Name and none in Swims, which holds another entity.
C16_Witness ==
    /\ last_op.op = "list_all_components_of" /\ Len(last_op.out) = 1
    /\ registry_list = <<"Name", "Swims">>
    /\ has(containers["Name"], last_op.e) /\ ~has(containers["Swims"], last_op.e)
    /\ size(containers["Swims"]) > 0

====
